---- MODULE Spec2Model ----
(***************************************************************************)
(* A model of app.py, the warehouse-jobs dashboard: the salary parser, the *)
(* record normalizer, the two Streamlit caches, the filter step of main    *)
(* and the views.                                                          *)
(*                                                                         *)
(* Text is a sequence of one-character strings, so that lower-casing,      *)
(* comma removal, number extraction, splitting and substring or regex      *)
(* search are computed as the code computes them.  A Python value is a     *)
(* tagged record [k, v]: k is "absent" (the key is missing from the        *)
(* document), "null" (None / NaN), "str", "num" or "list".  A float is an  *)
(* exact reduced fraction [null, n, d]; rounding of binary floating point  *)
(* is not modelled.                                                        *)
(***************************************************************************)
EXTENDS Integers, Sequences, FiniteSets, TLC

VARIABLES salary_str, parsed, raw_in, norm_out, load_cache, clean_cache, run

vars == <<salary_str, parsed, raw_in, norm_out, load_cache, clean_cache, run>>

(***************************************************************************)
(* Bounds of the model.                                                    *)
(***************************************************************************)
\* fragments concatenated into one salary text (specification SpecParse)
MaxFrags == 3
\* raw records handed to one call of clean_and_process_data (SpecNormalize)
MaxRecs == 2
\* documents the collection holds at one fetch (Spec)
MaxDocs == 2
\* seconds of wall-clock time one Tick lets pass (Spec)
TickStep == 300

(***************************************************************************)
(* Program constants.                                                      *)
(***************************************************************************)
\* @st.cache_data(ttl=600)
TTL == 600
\* avg_salary / 2080
HoursPerYear == 2080
\* avg_salary / 173.33, in hundredths
HoursPerMonthHundredths == 17333
\* avg_salary / 40
HoursPerWeek == 40
\* avg_salary > 2000
InferThreshold == 2000

(***************************************************************************)
(* Python values.                                                          *)
(***************************************************************************)
Absent == [k |-> "absent", v |-> <<>>]

Null == [k |-> "null", v |-> <<>>]

Str(s) == [k |-> "str", v |-> s]

NumVal(s) == [k |-> "num", v |-> s]

ListVal(l) == [k |-> "list", v |-> l]

\* isinstance(x, str)
IsStr(x) == x.k = "str"

\* isinstance(x, list)
IsList(x) == x.k = "list"

\* pd.notnull(x) of a scalar
NotNull(x) == x.k \notin {"absent", "null"}

(***************************************************************************)
(* Floats as exact fractions.                                              *)
(***************************************************************************)
RECURSIVE Gcd(_, _)
Gcd(a, b) == IF b = 0 THEN a ELSE Gcd(b, a % b)

None == [null |-> TRUE, n |-> 0, d |-> 1]

Frac(n, d) ==
    LET g == Gcd(n, d)
    IN  [null |-> FALSE, n |-> n \div g, d |-> d \div g]

FracAdd(a, b) == Frac(a.n * b.d + b.n * a.d, a.d * b.d)

\* a / (p / q)
FracDiv(a, p, q) ==
    LET g1 == Gcd(a.n, p)
        g2 == Gcd(q, a.d)
    IN  Frac((a.n \div g1) * (q \div g2), (a.d \div g2) * (p \div g1))

FracLt(a, b) == a.n * b.d < b.n * a.d

FracLe(a, b) == a.n * b.d <= b.n * a.d

Zero == Frac(0, 1)

(***************************************************************************)
(* str methods.                                                            *)
(***************************************************************************)
LowerMap ==
    [c \in {"A","B","C","D","E","F","G","H","I","J","K","L","M",
            "N","O","P","Q","R","S","T","U","V","W","X","Y","Z"} |->
        CASE c = "A" -> "a" [] c = "B" -> "b" [] c = "C" -> "c" [] c = "D" -> "d"
          [] c = "E" -> "e" [] c = "F" -> "f" [] c = "G" -> "g" [] c = "H" -> "h"
          [] c = "I" -> "i" [] c = "J" -> "j" [] c = "K" -> "k" [] c = "L" -> "l"
          [] c = "M" -> "m" [] c = "N" -> "n" [] c = "O" -> "o" [] c = "P" -> "p"
          [] c = "Q" -> "q" [] c = "R" -> "r" [] c = "S" -> "s" [] c = "T" -> "t"
          [] c = "U" -> "u" [] c = "V" -> "v" [] c = "W" -> "w" [] c = "X" -> "x"
          [] c = "Y" -> "y" [] c = "Z" -> "z"]

LowerChar(c) == IF c \in DOMAIN LowerMap THEN LowerMap[c] ELSE c

\* s.lower()
Lower(s) == [i \in 1..Len(s) |-> LowerChar(s[i])]

\* s.replace(',', '')
RemoveCommas(s) == SelectSeq(s, LAMBDA c : c # ",")

\* needle in hay
Contains(hay, needle) ==
    \E i \in 0..(Len(hay) - Len(needle)) : SubSeq(hay, i + 1, i + Len(needle)) = needle

Digits == {"0","1","2","3","4","5","6","7","8","9"}

DigitVal(c) ==
    CASE c = "0" -> 0 [] c = "1" -> 1 [] c = "2" -> 2 [] c = "3" -> 3 [] c = "4" -> 4
      [] c = "5" -> 5 [] c = "6" -> 6 [] c = "7" -> 7 [] c = "8" -> 8 [] c = "9" -> 9

\* the first index >= i of s that holds no digit (Len(s) + 1 when there is none)
RECURSIVE DigitsEnd(_, _)
DigitsEnd(s, i) ==
    IF i <= Len(s) /\ s[i] \in Digits THEN DigitsEnd(s, i + 1) ELSE i

\* re.findall(r'\d+\.?\d*', s) from index i on: leftmost, greedy, non-overlapping
RECURSIVE FindNumbers(_, _)
FindNumbers(s, i) ==
    IF i > Len(s) THEN <<>>
    ELSE IF s[i] \notin Digits THEN FindNumbers(s, i + 1)
    ELSE LET j == DigitsEnd(s, i)
             e == IF j <= Len(s) /\ s[j] = "." THEN DigitsEnd(s, j + 1) ELSE j
         IN  <<SubSeq(s, i, e - 1)>> \o FindNumbers(s, e)

\* float(tok) of a token matched by \d+\.?\d*
RECURSIVE ToFloatFrom(_, _, _, _, _)
ToFloatFrom(tok, i, n, d, seenDot) ==
    IF i > Len(tok) THEN Frac(n, d)
    ELSE IF tok[i] = "." THEN ToFloatFrom(tok, i + 1, n, d, TRUE)
    ELSE ToFloatFrom(tok, i + 1, n * 10 + DigitVal(tok[i]),
                     IF seenDot THEN d * 10 ELSE d, seenDot)

ToFloat(tok) == ToFloatFrom(tok, 1, 0, 1, FALSE)

RECURSIVE SumFloats(_)
SumFloats(toks) ==
    IF toks = <<>> THEN Zero ELSE FracAdd(ToFloat(Head(toks)), SumFloats(Tail(toks)))

(***************************************************************************)
(* parse_salary_intelligently (app.py 53-63).                              *)
(***************************************************************************)
S_year == <<"y","e","a","r">>

S_month == <<"m","o","n","t","h">>

S_week == <<"w","e","e","k">>

Unparsed == [hourly_rate |-> None, pay_period |-> "Unknown"]

\* mutant: 'month' is tested before 'year'
classify_month_first(s_lower, avg_salary) ==
    IF Contains(s_lower, S_month)
    THEN [hourly_rate |-> FracDiv(avg_salary, HoursPerMonthHundredths, 100),
          pay_period |-> "Monthly"]
    ELSE IF Contains(s_lower, S_year)
    THEN [hourly_rate |-> FracDiv(avg_salary, HoursPerYear, 1), pay_period |-> "Annual"]
    ELSE IF Contains(s_lower, S_week)
    THEN [hourly_rate |-> FracDiv(avg_salary, HoursPerWeek, 1), pay_period |-> "Weekly"]
    ELSE IF FracLt(Frac(InferThreshold, 1), avg_salary)
    THEN [hourly_rate |-> FracDiv(avg_salary, HoursPerYear, 1),
          pay_period |-> "Annual (Inferred)"]
    ELSE [hourly_rate |-> avg_salary, pay_period |-> "Hourly"]

\* lines 59-63: the first rule that matches decides
classify(s_lower, avg_salary) ==
    IF Contains(s_lower, S_year)
    THEN [hourly_rate |-> FracDiv(avg_salary, HoursPerYear, 1), pay_period |-> "Annual"]
    ELSE IF Contains(s_lower, S_month)
    THEN [hourly_rate |-> FracDiv(avg_salary, HoursPerMonthHundredths, 100),
          pay_period |-> "Monthly"]
    ELSE IF Contains(s_lower, S_week)
    THEN [hourly_rate |-> FracDiv(avg_salary, HoursPerWeek, 1), pay_period |-> "Weekly"]
    ELSE IF FracLt(Frac(InferThreshold, 1), avg_salary)
    THEN [hourly_rate |-> FracDiv(avg_salary, HoursPerYear, 1),
          pay_period |-> "Annual (Inferred)"]
    ELSE [hourly_rate |-> avg_salary, pay_period |-> "Hourly"]

\* lines 57-58: no number, or the mean of the numbers
parse_numbers(s_lower, numbers_str) ==
    IF numbers_str = <<>> THEN Unparsed
    ELSE classify(s_lower, FracDiv(SumFloats(numbers_str), Len(numbers_str), 1))

\* line 56
parse_text(s_lower) == parse_numbers(s_lower, FindNumbers(s_lower, 1))

\* lines 53-63
parse_salary_intelligently(salary) ==
    IF ~IsStr(salary) THEN Unparsed ELSE parse_text(RemoveCommas(Lower(salary.v)))

(***************************************************************************)
(* clean_and_process_data (app.py 49-81).  A DataFrame is the sequence of  *)
(* its rows; it has a column when some document holds the key, and a row   *)
(* that lacks the key holds NaN there.                                     *)
(***************************************************************************)
CITY_NORMALIZATION_MAP ==
    { << <<"s","o","u","t","h"," ","b","r","u","n","s","w","i","c","k"," ","t","o","w","n","s","h","i","p">>,
         <<"S","o","u","t","h"," ","B","r","u","n","s","w","i","c","k">> >>,
      << <<"n","o","r","t","h"," ","b","r","u","n","s","w","i","c","k"," ","t","o","w","n","s","h","i","p">>,
         <<"N","o","r","t","h"," ","B","r","u","n","s","w","i","c","k">> >>,
      << <<"e","d","i","s","o","n"," ","t","o","w","n","s","h","i","p">>,
         <<"E","d","i","s","o","n">> >>,
      << <<"n","e","w"," ","b","r","u","n","s","w","i","c","k"," ","c","i","t","y">>,
         <<"N","e","w"," ","B","r","u","n","s","w","i","c","k">> >>,
      << <<"j","e","r","s","e","y"," ","c","i","t","y">>,
         <<"J","e","r","s","e","y"," ","C","i","t","y">> >> }

S_Unknown == <<"U","n","k","n","o","w","n">>

Whitespace == {" ", "\t", "\n"}

\* 'f' in df.columns
HasColumn(df, f) == \E i \in 1..Len(df) : df[i][f].k # "absent"

RawFields == {"title", "company", "location", "salary", "benefits", "url"}

\* pd.DataFrame(data): a row lacking a key that another document holds gets NaN;
\* a key no document holds gives no column ("absent" in every row)
DataFrame(data) ==
    [i \in 1..Len(data) |->
        [f \in RawFields |->
            IF data[i][f].k = "absent" /\ HasColumn(data, f) THEN Null ELSE data[i][f]]]

\* raw_df.empty: no rows, or no columns
IsEmpty(df) == Len(df) = 0 \/ \A f \in RawFields : ~HasColumn(df, f)

\* x.split(',')[0]
RECURSIVE FirstSegment(_)
FirstSegment(s) ==
    IF s = <<>> \/ Head(s) = "," THEN <<>> ELSE <<Head(s)>> \o FirstSegment(Tail(s))

RECURSIVE LStrip(_)
LStrip(s) == IF s # <<>> /\ Head(s) \in Whitespace THEN LStrip(Tail(s)) ELSE s

RECURSIVE RStrip(_)
RStrip(s) ==
    IF s # <<>> /\ s[Len(s)] \in Whitespace THEN RStrip(SubSeq(s, 1, Len(s) - 1)) ELSE s

\* s.strip()
Strip(s) == RStrip(LStrip(s))

\* line 75: x.split(',')[0].strip() if pd.notnull(x) else 'Unknown'
original_city(location) ==
    IF NotNull(location) THEN Strip(FirstSegment(location.v)) ELSE S_Unknown

\* CITY_NORMALIZATION_MAP.get(key, name)
map_get(key, name) ==
    IF \E e \in CITY_NORMALIZATION_MAP : e[1] = key
    THEN (CHOOSE e \in CITY_NORMALIZATION_MAP : e[1] = key)[2]
    ELSE name

\* line 76: CITY_NORMALIZATION_MAP.get(name.lower(), name)
normalize_city(name) == map_get(Lower(name), name)

\* line 79: d if isinstance(d, list) else []
coerce_benefits(d) == IF IsList(d) THEN d.v ELSE <<>>

\* lines 65-69: the parsed salary of every row
salary_data(df) ==
    [i \in 1..Len(df) |->
        IF HasColumn(df, "salary") THEN parse_salary_intelligently(df[i].salary)
        ELSE Unparsed]

Indices(n) == [i \in 1..n |-> i]

\* mutant: rows with a zero rate are kept (dropna alone)
kept_rows_dropna_only(sd) ==
    SelectSeq(Indices(Len(sd)), LAMBDA i : ~sd[i].hourly_rate.null)

\* lines 71-72: dropna(subset=['hourly_rate']), then df[df['hourly_rate'] > 0];
\* the indices of the rows kept, sd being salary_data
kept_rows(sd) ==
    SelectSeq(Indices(Len(sd)),
              LAMBDA i : ~sd[i].hourly_rate.null /\ FracLt(Zero, sd[i].hourly_rate))

\* one row of the returned frame, oc being its original_city
canonical_row(rec, sal, oc) ==
    [title |-> rec.title, company |-> rec.company, location |-> rec.location,
     salary |-> rec.salary, url |-> rec.url,
     benefits |-> coerce_benefits(rec.benefits),
     hourly_rate |-> sal.hourly_rate, pay_period |-> sal.pay_period,
     original_city |-> oc, city |-> normalize_city(oc)]

\* mutant: the kept rows come out last first
canonical_rows_reversed(df, sd, kept) ==
    [j \in 1..Len(kept) |->
        canonical_row(df[kept[Len(kept) + 1 - j]], sd[kept[Len(kept) + 1 - j]],
                      original_city(df[kept[Len(kept) + 1 - j]].location))]

\* lines 75-81: the kept rows, in their order, with the derived columns
canonical_rows(df, sd, kept) ==
    [j \in 1..Len(kept) |->
        canonical_row(df[kept[j]], sd[kept[j]], original_city(df[kept[j]].location))]

Returned(rows) == [status |-> "ok", exc |-> "", rows |-> rows]

Raised(exc) == [status |-> "raised", exc |-> exc, rows |-> <<>>]

\* lines 73-81, kept being the rows that lines 71-72 keep
clean_kept(df, sd, kept) ==
    \* line 73
    IF Len(kept) = 0 THEN Returned(<<>>)
    \* line 75: df['location']
    ELSE IF ~HasColumn(df, "location") THEN Raised("KeyError")
    \* line 75: x.split of a value that is not a string
    ELSE IF \E j \in 1..Len(kept) :
                NotNull(df[kept[j]].location) /\ ~IsStr(df[kept[j]].location)
         THEN Raised("AttributeError")
    ELSE Returned(canonical_rows(df, sd, kept))

\* lines 71-81, sd being salary_data
clean_parsed(df, sd) == clean_kept(df, sd, kept_rows(sd))

\* lines 49-81: the body of clean_and_process_data
clean_and_process_data(df) == clean_parsed(df, salary_data(df))

(***************************************************************************)
(* Specification SpecParse: one salary value is drawn, then parsed.        *)
(***************************************************************************)
Fragments ==
    { <<"2","0">>, <<"0","0">>, <<"0","1">>, <<".","5">>, <<"3",",","5">>, <<"-">>,
      <<" ","a"," ","y","e","a","r">>, <<" ","M","o","n","t","h">>,
      <<"w","e","e","k">>, <<"$">> }

RECURSIVE Concat(_)
Concat(parts) == IF parts = <<>> THEN <<>> ELSE Head(parts) \o Concat(Tail(parts))

SalaryTexts ==
    { Concat(parts) : parts \in UNION { [1..n -> Fragments] : n \in 0..MaxFrags } }

SalaryInputs ==
    { Str(t) : t \in SalaryTexts } \cup { Absent, Null, NumVal(<<"5","2","0","0","0">>) }

NotParsed == [done |-> FALSE, result |-> Unparsed]

NotNormalized == [done |-> FALSE, arg |-> <<>>, status |-> "ok", exc |-> "", rows |-> <<>>]

NoEntry == [valid |-> FALSE, age |-> 0, value |-> <<>>, err |-> FALSE]

NoClean == [valid |-> FALSE, value |-> <<>>]

NoFilters == [city |-> <<>>, pay_periods |-> {}, keyword |-> <<>>, salary_range |-> <<Zero, Zero>>]

NoKeywordTab == [called |-> FALSE, status |-> "ok", rows |-> <<>>]

NoRun ==
    [outcome |-> "none", exc |-> "", fetched |-> FALSE, fetch_failed |-> FALSE,
     load_err |-> FALSE, raw_df |-> <<>>, cleaned |-> FALSE, df |-> <<>>,
     filtered |-> FALSE, filters |-> NoFilters, filtered_df |-> <<>>,
     views |-> <<>>, messages |-> <<>>, kw |-> NoKeywordTab]

IdleParse == salary_str = Absent /\ parsed = NotParsed

IdleNormalize == raw_in = <<>> /\ norm_out = NotNormalized

IdlePass == load_cache = NoEntry /\ clean_cache = NoClean /\ run = NoRun

InitParse ==
    /\ salary_str \in SalaryInputs
    /\ parsed = NotParsed
    /\ IdleNormalize
    /\ IdlePass

ParseSalary ==
    /\ ~parsed.done
    /\ parsed' = [done |-> TRUE, result |-> parse_salary_intelligently(salary_str)]
    /\ UNCHANGED <<salary_str, raw_in, norm_out, load_cache, clean_cache, run>>

SpecParse == InitParse /\ [][ParseSalary]_vars

\* The text the classification looks at: lower-cased, commas removed.
ParsedText == IF IsStr(salary_str) THEN RemoveCommas(Lower(salary_str.v)) ELSE <<>>

ParsedHasDigit == \E i \in 1..Len(ParsedText) : ParsedText[i] \in Digits

ParsedAvg ==
    LET nums == FindNumbers(ParsedText, 1)
    IN  FracDiv(SumFloats(nums), Len(nums), 1)

\* C2: a salary text holding at least one number is classified by the first
\* matching rule in the order year, month, week, magnitude, hourly, with rates
\* avg/2080, avg/173.33, avg/40, avg/2080 (avg > 2000) and avg (avg <= 2000,
\* 2000 itself included), avg being the mean of all numbers extracted after
\* the commas are removed; a value that is no text, or a text without a digit,
\* parses to a null rate and the period 'Unknown'.
C2_ParsePriority ==
    parsed.done =>
        LET r == parsed.result
            y == Contains(ParsedText, S_year)
            m == Contains(ParsedText, S_month)
            w == Contains(ParsedText, S_week)
        IN  IF ~IsStr(salary_str) \/ ~ParsedHasDigit
            THEN r.hourly_rate = None /\ r.pay_period = "Unknown"
            ELSE /\ y => r = [hourly_rate |-> FracDiv(ParsedAvg, 2080, 1),
                              pay_period |-> "Annual"]
                 /\ (~y /\ m) => r = [hourly_rate |-> FracDiv(ParsedAvg, 17333, 100),
                                      pay_period |-> "Monthly"]
                 /\ (~y /\ ~m /\ w) => r = [hourly_rate |-> FracDiv(ParsedAvg, 40, 1),
                                            pay_period |-> "Weekly"]
                 /\ (~y /\ ~m /\ ~w /\ FracLt(Frac(2000, 1), ParsedAvg))
                        => r = [hourly_rate |-> FracDiv(ParsedAvg, 2080, 1),
                                pay_period |-> "Annual (Inferred)"]
                 /\ (~y /\ ~m /\ ~w /\ FracLe(ParsedAvg, Frac(2000, 1)))
                        => r = [hourly_rate |-> ParsedAvg, pay_period |-> "Hourly"]

\* A text naming both 'month' and 'year' (month first) with a number was parsed as Annual.
C2_Witness ==
    /\ parsed.done
    /\ IsStr(salary_str)
    /\ Contains(ParsedText, S_month \o <<" ","a"," ">> \o S_year)
    /\ ParsedHasDigit
    /\ parsed.result.pay_period = "Annual"

(***************************************************************************)
(* Specification SpecNormalize: a sequence of raw records is drawn, then   *)
(* clean_and_process_data is called on it.                                 *)
(***************************************************************************)
S_Lead == <<"L","e","a","d">>

S_Packer == <<"P","a","c","k","e","r">>

RawRecord(t, s, l, b) ==
    [title |-> t, company |-> Str(<<"A","c","m","e">>), location |-> l, salary |-> s,
     benefits |-> b, url |-> Str(<<"u">>)]

GoodSalary == Str(<<"$","2","0">>)

GoodLocation == Str(<<" ","E","d","i","s","o","n"," ","T","o","w","n","s","h","i","p"," ",","," ","N","J">>)

GoodBenefits == ListVal(<<"401k", "dental">>)

NormSalaries ==
    { Absent, Null, NumVal(<<"5","0">>), GoodSalary, Str(<<"0"," ","a"," ","y","e","a","r">>),
      Str(<<"n","e","g","o","t","i","a","b","l","e">>),
      Str(<<"4","1",",","6","0","0"," ","a"," ","y","e","a","r">>) }

NormLocations == { Absent, Null, NumVal(<<"7">>), GoodLocation, Str(<<"A","v","e","n","e","l">>) }

NormBenefits == { Absent, Str(<<"4","0","1","k">>), GoodBenefits }

NormPool ==
    { RawRecord(Str(S_Lead), s, GoodLocation, GoodBenefits) : s \in NormSalaries }
    \cup { RawRecord(Str(S_Packer), GoodSalary, l, b) : l \in NormLocations, b \in NormBenefits }
    \cup { RawRecord(Absent, Null, NumVal(<<"7">>), Absent),
           RawRecord(Absent, Absent, Absent, Absent) }

SeqsUpTo(S, n) == UNION { [1..k -> S] : k \in 0..n }

InitNormalize ==
    /\ raw_in \in { DataFrame(data) : data \in SeqsUpTo(NormPool, MaxRecs) }
    /\ norm_out = NotNormalized
    /\ IdleParse
    /\ IdlePass

\* The call: _df.copy() leaves the caller's frame as it was.
NormalizeRecords ==
    /\ ~norm_out.done
    /\ norm_out' = [done |-> TRUE, arg |-> raw_in] @@ clean_and_process_data(raw_in)
    /\ UNCHANGED <<raw_in, salary_str, parsed, load_cache, clean_cache, run>>

SpecNormalize == InitNormalize /\ [][NormalizeRecords]_vars

\* The rate the parser gives a raw record's salary.
RateOf(rec) == parse_salary_intelligently(rec.salary).hourly_rate

Usable(rec) == ~RateOf(rec).null /\ FracLt(Zero, RateOf(rec))

\* The i-th smallest member of a finite set of numbers.
Nth(K, j) == CHOOSE i \in K : Cardinality({k \in K : k < i}) = j - 1

\* C1: every record in the output of clean_and_process_data has a non-null
\* hourly_rate strictly greater than 0, and no input record whose parsed rate
\* is null, zero or negative appears in it.
C1_PositiveRates ==
    (norm_out.done /\ norm_out.status = "ok") =>
        /\ \A j \in 1..Len(norm_out.rows) :
              /\ ~norm_out.rows[j].hourly_rate.null
              /\ FracLt(Zero, norm_out.rows[j].hourly_rate)
        /\ \A i \in 1..Len(raw_in) :
              ~Usable(raw_in[i]) =>
                  \A j \in 1..Len(norm_out.rows) :
                      norm_out.rows[j].salary # raw_in[i].salary

\* An input holding a zero-rate record and a usable one was normalized to a non-empty frame.
C1_Witness ==
    /\ norm_out.done
    /\ norm_out.status = "ok"
    /\ Len(norm_out.rows) > 0
    /\ \E i \in 1..Len(raw_in) : ~RateOf(raw_in[i]).null /\ RateOf(raw_in[i]) = Zero

\* C5: clean_and_process_data completes without raising whatever fields are
\* absent, null or of another type: records with an absent or unparsable
\* salary are dropped, a kept record with a null or missing location gets
\* original_city 'Unknown', and a kept record with missing or non-list
\* benefits gets an empty list.
C5_NeverRaises ==
    norm_out.done =>
        LET K == {i \in 1..Len(raw_in) : Usable(raw_in[i])}
        IN  /\ norm_out.status = "ok"
            /\ Len(norm_out.rows) = Cardinality(K)
            /\ \A j \in 1..Len(norm_out.rows) :
                  /\ ~NotNull(raw_in[Nth(K, j)].location)
                        => norm_out.rows[j].original_city = S_Unknown
                  /\ ~IsList(raw_in[Nth(K, j)].benefits)
                        => norm_out.rows[j].benefits = <<>>

KEYWORDS ==
    << <<"O","p","e","r","a","t","o","r">>, <<"F","o","r","k","l","i","f","t">>,
       <<"L","e","a","d">>, <<"S","u","p","e","r","v","i","s","o","r">>,
       <<"M","a","n","a","g","e","r">>, <<"A","s","s","o","c","i","a","t","e">>,
       <<"T","e","c","h","n","i","c","i","a","n">>, <<"D","r","i","v","e","r">>,
       <<"P","i","c","k","e","r">>, <<"P","a","c","k","e","r">> >>

S_AllCities == <<"-","-"," ","A","l","l"," ","C","i","t","i","e","s"," ","-","-">>

\* mutant: the exception of the fetch leaves load_data
load_data_propagates(fetch) ==
    IF fetch.ok THEN [status |-> "ok", df |-> DataFrame(fetch.docs), err |-> FALSE]
    ELSE [status |-> "raised", df |-> <<>>, err |-> FALSE]

\* lines 35-45: the body of load_data, given what the collection answers
load_data(fetch) ==
    IF fetch.ok THEN [status |-> "ok", df |-> DataFrame(fetch.docs), err |-> FALSE]
    ELSE [status |-> "ok", df |-> <<>>, err |-> TRUE]

\* line 34: @st.cache_data(ttl=600); an entry is served while younger than ttl,
\* and the st.error of the cached call is replayed with it
CacheHit == load_cache.valid /\ load_cache.age < TTL

\* a call that found no entry stores what it returned, unless it raised
load_data_store(r) ==
    r @@ [hit |-> FALSE,
          cache |-> IF r.status = "ok"
                    THEN [valid |-> TRUE, age |-> 0, value |-> r.df, err |-> r.err]
                    ELSE load_cache]

load_data_cached(fetch) ==
    IF CacheHit
    THEN [status |-> "ok", df |-> load_cache.value, err |-> load_cache.err,
          hit |-> TRUE, cache |-> load_cache]
    ELSE load_data_store(load_data(fetch))

clean_store(r) ==
    r @@ [cache |-> IF r.status = "ok" THEN [valid |-> TRUE, value |-> r.rows]
                    ELSE clean_cache]

\* line 48: @st.cache_data on a function whose only parameter, _df, starts
\* with an underscore: Streamlit leaves it out of the cache key, and the entry
\* has no ttl, so the first value returned is served to every later call
clean_and_process_data_cached(df) ==
    IF clean_cache.valid
    THEN Returned(clean_cache.value) @@ [cache |-> clean_cache]
    ELSE clean_store(clean_and_process_data(df))

\* re.search(pat, text, re.IGNORECASE) for a pattern of literal characters and
\* '.', which matches any character but a newline
RegexSearch(pat, text) ==
    \E i \in 0..(Len(text) - Len(pat)) :
        \A k \in 1..Len(pat) :
            IF pat[k] = "." THEN text[i + k] # "\n"
            ELSE LowerChar(pat[k]) = LowerChar(text[i + k])

\* Series.str.contains(pat, case=False, na=na) of one element: regex=True is
\* the default; an element that is no string gives the fill value na
str_contains(pat, x, na) ==
    IF ~IsStr(x) THEN na ELSE IF RegexSearch(pat, x.v) THEN "true" ELSE "false"

\* The fill value of str.contains when na is not passed (line 159) depends on
\* the dtype pandas gave the column: NaN ("na") for object, False for str.
NaDefaults == {"na", "false"}

SetOf(seq) == { seq[i] : i \in 1..Len(seq) }

Rates(df) == { df[i].hourly_rate : i \in 1..Len(df) }

\* lines 95-117: what the sidebar widgets can return for the frame df, the
\* text input returning one of keywords; the slider returns lo <= hi within
\* the least and the greatest rate of df
display_sidebar(df, keywords) ==
    { f \in [city : {S_AllCities} \cup { df[i].city : i \in 1..Len(df) },
             pay_periods : SUBSET { df[i].pay_period : i \in 1..Len(df) },
             keyword : keywords,
             salary_range : Rates(df) \X Rates(df)] :
        FracLe(f.salary_range[1], f.salary_range[2]) }

\* lines 100-110: the widgets' values before the user touches them
sidebar_defaults(df) ==
    [city |-> S_AllCities,
     pay_periods |-> { df[i].pay_period : i \in 1..Len(df) },
     keyword |-> <<>>,
     salary_range |-> << CHOOSE r \in Rates(df) : \A q \in Rates(df) : FracLe(r, q),
                         CHOOSE r \in Rates(df) : \A q \in Rates(df) : FracLe(q, r) >>]

\* lines 231-232, rows being what the first three predicates left
filter_keyword(df, rows, keyword) ==
    IF keyword = <<>> THEN Returned(rows)
    ELSE IF ~HasColumn(df, "title") THEN Raised("KeyError")
    ELSE Returned(SelectSeq(rows, LAMBDA r : str_contains(keyword, r.title, "false") = "true"))

\* lines 225-229
filter_range(rows, filters) ==
    SelectSeq(rows, LAMBDA r : /\ r.pay_period \in filters.pay_periods
                               /\ FracLe(filters.salary_range[1], r.hourly_rate)
                               /\ FracLe(r.hourly_rate, filters.salary_range[2]))

\* lines 222-223
filter_city(df, filters) ==
    IF filters.city # S_AllCities THEN SelectSeq(df, LAMBDA r : r.city = filters.city)
    ELSE df

\* lines 221-232: the filter step; [status, exc, rows]
apply_filters(df, filters) ==
    filter_keyword(df, filter_range(filter_city(df, filters), filters), filters.keyword)

RECURSIVE SumRates(_)
SumRates(rows) ==
    IF rows = <<>> THEN Zero ELSE FracAdd(Head(rows).hourly_rate, SumRates(Tail(rows)))

\* Series.mean()
MeanRate(rows) == FracDiv(SumRates(rows), Len(rows), 1)

\* sort_values(by="岗位数", ascending=False): descending by count, rows of
\* equal count in their former order; no count is above c
RECURSIVE SortDesc(_, _)
SortDesc(rows, c) ==
    IF c = 0 THEN <<>>
    ELSE SelectSeq(rows, LAMBDA r : r.count = c) \o SortDesc(rows, c - 1)

\* lines 160-162
keyword_entry(keyword, subset) ==
    IF subset = <<>> THEN <<>>
    ELSE << [keyword |-> keyword, count |-> Len(subset), mean |-> MeanRate(subset)] >>

\* lines 158-162: one entry per keyword that some title contains
RECURSIVE keyword_data(_, _, _)
keyword_data(df, k, na) ==
    IF k > Len(KEYWORDS) THEN <<>>
    ELSE keyword_entry(KEYWORDS[k],
                       SelectSeq(df, LAMBDA r : str_contains(KEYWORDS[k], r.title, na) = "true"))
         \o keyword_data(df, k + 1, na)

\* A script run so far: the views completed, the notices shown, the exception raised.
Emit(st, view, notices) ==
    [st EXCEPT !.views = @ \o <<view>>, !.messages = @ \o notices]

Raise(st, exc) == [st EXCEPT !.outcome = "raised", !.exc = exc]

\* lines 120-137
display_kpis_and_diagnostics(st, df) ==
    IF st.exc # "" THEN st
    ELSE IF Len(df) = 0 THEN Emit(st, "kpis", <<"nodata:kpis">>)
    ELSE IF \E f \in {"salary", "title", "company"} : ~HasColumn(df, f) THEN Raise(st, "KeyError")
    ELSE Emit(st, "kpis", <<>>)

\* lines 140-150
display_geo_analysis_tab(st, df) ==
    IF st.exc # "" THEN st
    ELSE IF Len(df) = 0 THEN Emit(st, "geo", <<"nodata:geo">>)
    ELSE Emit(st, "geo", <<>>)

\* lines 163-169: the chart of the rows, or the notice that no keyword was found
keyword_chart(st, rows) ==
    [Emit(st, "keyword", IF rows = <<>> THEN <<"info:no_keyword_found">> ELSE <<>>)
        EXCEPT !.kw.called = TRUE, !.kw.rows = rows]

\* lines 153-169: df['title'] raises when there is no such column, and
\* df[mask] raises when the mask holds NaN
display_keyword_analysis_tab(st, df, na) ==
    IF st.exc # "" THEN st
    ELSE IF Len(df) = 0 THEN [Emit(st, "keyword", <<>>) EXCEPT !.kw.called = TRUE]
    ELSE IF ~HasColumn(df, "title")
         THEN [Raise(st, "KeyError") EXCEPT !.kw.called = TRUE, !.kw.status = "raised"]
    ELSE IF \E i \in 1..Len(df) : str_contains(KEYWORDS[1], df[i].title, na) = "na"
         THEN [Raise(st, "ValueError") EXCEPT !.kw.called = TRUE, !.kw.status = "raised"]
    ELSE keyword_chart(st, SortDesc(keyword_data(df, 1, na), Len(df)))

\* lines 172-188
display_company_analysis_tab(st, df) ==
    IF st.exc # "" THEN st
    ELSE IF Len(df) = 0 THEN Emit(st, "company", <<"nodata:company">>)
    ELSE IF ~HasColumn(df, "company") THEN Raise(st, "KeyError")
    ELSE Emit(st, "company", <<>>)

\* lines 191-198
display_data_table(st, df) ==
    IF st.exc # "" THEN st
    ELSE IF Len(df) = 0 THEN Emit(st, "table", <<>>)
    ELSE IF \E f \in {"title", "company", "salary", "url"} : ~HasColumn(df, f)
         THEN Raise(st, "KeyError")
    ELSE Emit(st, "table", <<>>)

\* lines 234-248: the KPI block and the four tabs, in script order
display_all(st, df, na) ==
    display_data_table(
      display_company_analysis_tab(
        display_keyword_analysis_tab(
          display_geo_analysis_tab(
            display_kpis_and_diagnostics(st, df), df), df, na), df), df)

\* lines 220-248, f being what the filter step gave
render_filtered(st, f, na) ==
    IF f.status # "ok" THEN Raise(st, f.exc)
    ELSE display_all([st EXCEPT !.filtered = TRUE, !.filtered_df = f.rows,
                                !.outcome = "rendered"], f.rows, na)

\* lines 218-248: the rest of main once the canonical frame df is at hand
render(st, df, filters, na) ==
    render_filtered([st EXCEPT !.filters = filters], apply_filters(df, filters), na)

\* lines 212-215, cl being what clean_and_process_data returned
\* [run, load, clean, stopped]: the run so far, the caches after it, and
\* whether main returned or raised before the sidebar
main_cleaned(st0, load, cl) ==
    IF cl.status # "ok"
    THEN [run |-> Raise(st0, cl.exc), load |-> load, clean |-> cl.cache, stopped |-> TRUE]
    ELSE IF Len(cl.rows) = 0
    THEN [run |-> [st0 EXCEPT !.cleaned = TRUE, !.outcome = "no_valid",
                              !.messages = @ \o <<"error:no_valid_records">>],
          load |-> load, clean |-> cl.cache, stopped |-> TRUE]
    ELSE [run |-> [st0 EXCEPT !.cleaned = TRUE, !.df = cl.rows],
          load |-> load, clean |-> cl.cache, stopped |-> FALSE]

\* What the run shows of load_data: its frame, and the st.error it made or replayed.
run_loaded(ld, fetch) ==
    [NoRun EXCEPT !.fetched = ~ld.hit, !.fetch_failed = ~ld.hit /\ ~fetch.ok,
                  !.load_err = ld.err, !.raw_df = ld.df,
                  !.messages = IF ld.err THEN <<"error:mongo">> ELSE <<>>]

\* lines 208-212, ld being what load_data returned
main_loaded(ld, fetch) ==
    IF ld.status # "ok"
    THEN [run |-> Raise(run_loaded(ld, fetch), "Exception"), load |-> ld.cache,
          clean |-> clean_cache, stopped |-> TRUE]
    ELSE IF IsEmpty(ld.df)
    THEN [run |-> [run_loaded(ld, fetch) EXCEPT !.outcome = "no_data"], load |-> ld.cache,
          clean |-> clean_cache, stopped |-> TRUE]
    ELSE main_cleaned(run_loaded(ld, fetch), ld.cache, clean_and_process_data_cached(ld.df))

\* lines 207-215: main up to the sidebar
main_load(fetch) == main_loaded(load_data_cached(fetch), fetch)

(***************************************************************************)
(* Specification Spec: script runs (one per user interaction) and the      *)
(* passing of time.  What the collection holds when it is asked is drawn   *)
(* anew at every fetch.                                                    *)
(***************************************************************************)
S_LeadPacker == <<"L","e","a","d"," ","P","a","c","k","e","r">>

DocPool ==
    { RawRecord(Str(S_LeadPacker), GoodSalary,
                Str(<<"E","d","i","s","o","n"," ","T","o","w","n","s","h","i","p",","," ","N","J">>),
                GoodBenefits),
      RawRecord(Absent, Str(<<"6","0","0"," ","a"," ","w","e","e","k">>), Null, Absent),
      RawRecord(Str(S_Packer), Str(<<"n","e","g","o","t","i","a","b","l","e">>),
                Str(<<"A","v","e","n","e","l">>), GoodBenefits) }

\* The documents of a collection are distinct documents.
Collections ==
    { d \in SeqsUpTo(DocPool, MaxDocs) : \A i, j \in 1..Len(d) : d[i] = d[j] => i = j }

FetchOutcomes ==
    { [ok |-> TRUE, docs |-> d] : d \in Collections }
    \cup { [ok |-> FALSE, docs |-> <<>>] }

KeywordInputs == { <<>>, <<"l","e","a","d">>, <<".">> }

NoFetch == [ok |-> TRUE, docs |-> <<>>]

MovedFrom(f, defaults) == Cardinality({ w \in DOMAIN f : f[w] # defaults[w] })

\* The sidebar of a run of Spec: the defaults, or one widget moved from them.
OneWidgetMoved(df) ==
    { f \in display_sidebar(df, KeywordInputs) : MovedFrom(f, sidebar_defaults(df)) <= 1 }

Init ==
    /\ load_cache = NoEntry
    /\ clean_cache = NoClean
    /\ run = NoRun
    /\ IdleParse
    /\ IdleNormalize

\* lines 203-248: one run of the script; the collection is asked only when
\* load_data has no entry to serve, and the sidebar holds what the user set
main_rest(m, na) ==
    /\ load_cache' = m.load
    /\ clean_cache' = m.clean
    /\ IF m.stopped THEN run' = m.run
       ELSE \E filters \in OneWidgetMoved(m.run.df) :
                run' = render(m.run, m.run.df, filters, na)
    /\ UNCHANGED <<salary_str, parsed, raw_in, norm_out>>

main ==
    \E fetch \in (IF CacheHit THEN {NoFetch} ELSE FetchOutcomes) :
        \E na \in NaDefaults : main_rest(main_load(fetch), na)

\* time passes: the entry of load_data ages until its ttl is over
Tick ==
    /\ load_cache.valid
    /\ load_cache.age < TTL
    /\ load_cache' = [load_cache EXCEPT !.age = @ + TickStep]
    /\ UNCHANGED <<clean_cache, run, salary_str, parsed, raw_in, norm_out>>

Next == main \/ Tick

Spec == Init /\ [][Next]_vars

\* The records of df that the criteria of the filter step accept, the keyword
\* being looked for as a substring of the title, letter case apart.
Accepted(df, filters) ==
    SelectSeq(df, LAMBDA r :
        /\ filters.city # S_AllCities => r.city = filters.city
        /\ r.pay_period \in filters.pay_periods
        /\ FracLe(filters.salary_range[1], r.hourly_rate)
        /\ FracLe(r.hourly_rate, filters.salary_range[2])
        /\ filters.keyword # <<>> =>
              IsStr(r.title) /\ Contains(Lower(r.title.v), Lower(filters.keyword)))

\* C3: the filter step of main returns exactly the records of the canonical
\* dataset whose city is the selected one (any city for the all-cities value),
\* whose pay_period is accepted, whose hourly_rate lies in [min, max] and, for
\* a non-empty keyword, whose title contains the keyword case-insensitively (a
\* missing title never matches), in the order of the dataset.
C3_FilterSemantics ==
    run.filters # NoFilters =>
        /\ run.filtered
        /\ run.filtered_df = Accepted(run.df, run.filters)

\* C4: in every pass the canonical dataset is clean_and_process_data of the
\* raw records this pass got from load_data; nothing but the fetch cache is
\* carried from one pass to the next.
C4_CanonicalOfThisPass ==
    run.cleaned => clean_and_process_data(run.raw_df) = Returned(run.df)

\* C6: whenever the raw input obtained from the source normalizes to zero
\* canonical records, the pass reports that no usable data is left and stops.
C6_EmptyReported ==
    (run.outcome # "none" /\ ~run.load_err
        /\ clean_and_process_data(run.raw_df) = Returned(<<>>)) =>
        /\ run.outcome = "no_valid"
        /\ "error:no_valid_records" \in SetOf(run.messages)

\* C7: when the criteria match no record of a non-empty canonical dataset, the
\* pass runs the KPI block and the four views to completion, and each of the
\* four views reports that it has no data.
C7_EmptyFilterViews ==
    (run.filtered /\ run.filtered_df = <<>>) =>
        /\ run.exc = ""
        /\ run.views = <<"kpis", "geo", "keyword", "company", "table">>
        /\ {"nodata:geo", "nodata:keyword", "nodata:company", "nodata:table"}
              \subseteq SetOf(run.messages)

\* C8: when the fetch fails, load_data returns an empty frame and shows an
\* error instead of raising, and the pass stops before normalization, the
\* filter step and every view.
C8_FetchFailure ==
    run.fetch_failed =>
        /\ run.exc = ""
        /\ run.raw_df = <<>>
        /\ run.load_err
        /\ "error:mongo" \in SetOf(run.messages)
        /\ run.outcome = "no_data"
        /\ ~run.cleaned
        /\ ~run.filtered
        /\ run.views = <<>>

\* A pass whose fetch failed has stopped, the failed call being the cache entry.
C8_Witness ==
    /\ run.fetch_failed
    /\ run.outcome = "no_data"
    /\ load_cache.valid
    /\ load_cache.err

(***************************************************************************)
(* Specification SpecKeyword: a sequence of raw records is drawn and       *)
(* normalized, then display_keyword_analysis_tab is called on the result.  *)
(***************************************************************************)
KeywordTitles ==
    { Absent, Str(S_LeadPacker), Str(S_Packer),
      Str(<<"f","o","r","k","l","i","f","t"," ","o","p","e","r","a","t","o","r">>),
      Str(<<"C","l","e","r","k">>) }

KeywordPool ==
    { RawRecord(t, s, GoodLocation, GoodBenefits) :
        t \in KeywordTitles,
        s \in { GoodSalary, Str(<<"6","0","0"," ","a"," ","w","e","e","k">>) } }

InitKeyword ==
    /\ raw_in \in { DataFrame(data) : data \in SeqsUpTo(KeywordPool, MaxRecs) }
    /\ norm_out = NotNormalized
    /\ IdleParse
    /\ IdlePass

KeywordTab ==
    /\ norm_out.done
    /\ norm_out.status = "ok"
    /\ ~run.kw.called
    /\ \E na \in NaDefaults : run' = display_keyword_analysis_tab(NoRun, norm_out.rows, na)
    /\ UNCHANGED <<salary_str, parsed, raw_in, norm_out, load_cache, clean_cache>>

NextKeyword == NormalizeRecords \/ KeywordTab

SpecKeyword == InitKeyword /\ [][NextKeyword]_vars

\* The records of df whose title contains the keyword, letter case apart.
TitleHas(df, keyword) ==
    SelectSeq(df, LAMBDA r : IsStr(r.title) /\ Contains(Lower(r.title.v), Lower(keyword)))

\* C10: for every sequence of canonical records, the empty one and those with
\* missing titles included, display_keyword_analysis_tab completes and yields,
\* for each keyword of KEYWORDS that some title contains, its count and its
\* mean hourly_rate, the keywords being in descending order of count.
C10_KeywordGrouping ==
    run.kw.called =>
        /\ run.kw.status = "ok"
        /\ run.exc = ""
        /\ \A k \in 1..Len(KEYWORDS) :
              LET subset == TitleHas(norm_out.rows, KEYWORDS[k])
              IN  IF subset = <<>>
                  THEN \A j \in 1..Len(run.kw.rows) : run.kw.rows[j].keyword # KEYWORDS[k]
                  ELSE \E j \in 1..Len(run.kw.rows) :
                          run.kw.rows[j] = [keyword |-> KEYWORDS[k], count |-> Len(subset),
                                            mean |-> MeanRate(subset)]
        /\ \A i, j \in 1..Len(run.kw.rows) :
              i < j => /\ run.kw.rows[i].count >= run.kw.rows[j].count
                       /\ run.kw.rows[i].keyword # run.kw.rows[j].keyword

====
